---- MODULE Spec2Model ----
(***************************************************************************)
(* FairMutex<T> of src/sync.rs: a data mutex plus a "next-to-access" mutex *)
(* (the gate).  lock() takes `next`, then `data` while still holding       *)
(* `next`, and drops `next` when it returns the data guard.                *)
(*                                                                         *)
(* Both mutexes are parking_lot mutexes: a locked bit, no owner, no        *)
(* poisoning, and no ordering among the threads that contend for a free    *)
(* mutex (barging is allowed), so whichever contender runs first wins.     *)
(*                                                                         *)
(* Threads are the users of one instance.  Each repeats                    *)
(*     lock(); read T; write T+1; drop guard                               *)
(* and may, while it holds the guard, terminate abnormally or call lock()  *)
(* a second time.                                                          *)
(***************************************************************************)
EXTENDS Integers, FiniteSets

\* ---- bounds of the model ----
NumThreads == 3
MaxIter == 2
MaxInit == 1
MaxPath == 1

Threads == 1..NumThreads
InitValues == 0..MaxInit

VARIABLES
    data_locked,  \* FairMutex.data : locked bit of Mutex<T>
    value,        \* FairMutex.data : the protected T (a counter)
    next_locked,  \* FairMutex.next : locked bit of Mutex<()>
    pc,           \* per thread: position in lock() / in its critical section
    guards,       \* per thread: number of live MutexGuard<T> it owns
    iter,         \* per thread: completed lock/use/drop rounds
    local,        \* per thread: the value read through the guard
    initial,      \* history: the argument given to new()
    ahead,        \* history: who held the gate without the data lock when the observer made the lock() call it is in
    queued,       \* history: who was blocked in lock() when the observer made the lock() call it is in, and has not got the data lock since
    owed,         \* history: who was blocked in lock() while the observer held its last guard, and has not got the data lock since
    phase,        \* immut_climber call of the observer: "none", "first" attempt or "retry"
    climber,      \* immut_climber: the caller's Climber (its position on the path)
    save,         \* immut_climber: the clone of the Climber taken on entry
    ret1,         \* immut_climber: retval, the result of general_access_immut
    ret2,         \* immut_climber: the result of general_access_mut
    result,       \* immut_climber: what the last call returned to its caller
    locks,        \* history: lock() calls made by the immut_climber call
    atdrop        \* history: who held the gate without the data lock when the first attempt's guard was dropped

core == <<data_locked, value, next_locked, pc, guards, iter, local, initial>>

hist == <<ahead, queued, owed>>

climb == <<phase, climber, save, ret1, ret2, result, locks, atdrop>>

vars == <<data_locked, value, next_locked, pc, guards, iter, local, initial,
          ahead, queued, owed,
          phase, climber, save, ret1, ret2, result, locks, atdrop>>

\* positions inside lock()
InLock == {"next", "data", "ret"}
\* positions of a thread that returned from lock() and uses the guard
InCS == {"cs", "wr", "rel"}

\* a thread holds the data lock: it passed self.data.lock() and owns the guard
HoldsData(t) == pc[t] = "ret" \/ guards[t] > 0

\* a thread is blocked: it is at the lock() of a mutex whose locked bit is set
Blocked(t) == \/ pc[t] = "next" /\ next_locked
              \/ pc[t] = "data" /\ data_locked

\* threads that have called lock() on the instance
users == {t \in Threads : pc[t] # "idle" \/ iter[t] > 0}

\* FairMutex::new that drops its argument and wraps a default T
new_Default(v) == [data_locked |-> FALSE, value |-> 0, next_locked |-> FALSE]

\* FairMutex::new : Mutex::new(data) and Mutex::new(()), both unlocked
new(v) == [data_locked |-> FALSE, value |-> v, next_locked |-> FALSE]

Init ==
    \E v \in InitValues :
        /\ data_locked = new(v).data_locked
        /\ value = new(v).value
        /\ next_locked = new(v).next_locked
        /\ initial = v
        /\ pc = [t \in Threads |-> "idle"]
        /\ guards = [t \in Threads |-> 0]
        /\ iter = [t \in Threads |-> 0]
        /\ local = [t \in Threads |-> 0]
        /\ ahead = {}
        /\ queued = {}
        /\ owed = {}
        /\ phase = "none"
        /\ climber = 0
        /\ save = 0
        /\ ret1 = "none"
        /\ ret2 = "none"
        /\ result = "none"
        /\ locks = 0
        /\ atdrop = {}

\* ---- the steps of the program ----

\* a thread outside the lock calls lock()
Call(t) ==
    /\ pc[t] = "idle"
    /\ iter[t] < MaxIter
    /\ pc' = [pc EXCEPT ![t] = "next"]
    /\ UNCHANGED <<data_locked, value, next_locked, guards, iter, local, initial>>

\* a thread that still owns its guard calls lock() again
Relock(t) ==
    /\ pc[t] = "cs"
    /\ guards[t] = 1
    /\ pc' = [pc EXCEPT ![t] = "next"]
    /\ UNCHANGED <<data_locked, value, next_locked, guards, iter, local, initial>>

\* let _ = self.next.lock(): the gate guard is a temporary, freed at once
LockNext_Temporary(t) ==
    /\ pc[t] = "next"
    /\ ~next_locked
    /\ next_locked' = FALSE
    /\ pc' = [pc EXCEPT ![t] = "data"]
    /\ UNCHANGED <<data_locked, value, guards, iter, local, initial>>

\* self.next.lock() that does not wait for the locked bit
LockNext_NoWait(t) ==
    /\ pc[t] = "next"
    /\ next_locked' = TRUE
    /\ pc' = [pc EXCEPT ![t] = "data"]
    /\ UNCHANGED <<data_locked, value, guards, iter, local, initial>>

\* let _next = self.next.lock();
LockNext(t) ==
    /\ pc[t] = "next"
    /\ ~next_locked
    /\ next_locked' = TRUE
    /\ pc' = [pc EXCEPT ![t] = "data"]
    /\ UNCHANGED <<data_locked, value, guards, iter, local, initial>>

\* self.data.lock() that does not wait for the locked bit
LockData_NoWait(t) ==
    /\ pc[t] = "data"
    /\ data_locked' = TRUE
    /\ pc' = [pc EXCEPT ![t] = "ret"]
    /\ UNCHANGED <<value, next_locked, guards, iter, local, initial>>

\* self.data.lock() on a reentrant mutex: the owner may lock again
LockData_Reentrant(t) ==
    /\ pc[t] = "data"
    /\ ~data_locked \/ guards[t] > 0
    /\ data_locked' = TRUE
    /\ pc' = [pc EXCEPT ![t] = "ret"]
    /\ UNCHANGED <<value, next_locked, guards, iter, local, initial>>

\* self.data.lock()
LockData(t) ==
    /\ pc[t] = "data"
    /\ ~data_locked
    /\ data_locked' = TRUE
    /\ pc' = [pc EXCEPT ![t] = "ret"]
    /\ UNCHANGED <<value, next_locked, guards, iter, local, initial>>

\* lock() returns the data guard but the gate guard is leaked
Return_KeepGate(t) ==
    /\ pc[t] = "ret"
    /\ pc' = [pc EXCEPT ![t] = "cs"]
    /\ guards' = [guards EXCEPT ![t] = @ + 1]
    /\ UNCHANGED <<data_locked, value, next_locked, iter, local, initial>>

\* end of lock(): _next is dropped, the data guard is returned
Return(t) ==
    /\ pc[t] = "ret"
    /\ next_locked' = FALSE
    /\ pc' = [pc EXCEPT ![t] = "cs"]
    /\ guards' = [guards EXCEPT ![t] = @ + 1]
    /\ UNCHANGED <<data_locked, value, iter, local, initial>>

\* the holder reads T through the guard
Read(t) ==
    /\ pc[t] = "cs"
    /\ local' = [local EXCEPT ![t] = value]
    /\ pc' = [pc EXCEPT ![t] = "wr"]
    /\ UNCHANGED <<data_locked, value, next_locked, guards, iter, initial>>

\* the holder writes the incremented value through the guard
Write(t) ==
    /\ pc[t] = "wr"
    /\ value' = local[t] + 1
    /\ local' = [local EXCEPT ![t] = 0]
    /\ pc' = [pc EXCEPT ![t] = "rel"]
    /\ UNCHANGED <<data_locked, next_locked, guards, iter, initial>>

\* the holder has only read T (as immut_reflector does) and writes nothing
Keep(t) ==
    /\ pc[t] = "wr"
    /\ local' = [local EXCEPT ![t] = 0]
    /\ pc' = [pc EXCEPT ![t] = "rel"]
    /\ UNCHANGED <<data_locked, value, next_locked, guards, iter, initial>>

\* a thread that has completed its rounds starts over
Again(t) ==
    /\ pc[t] = "idle"
    /\ iter[t] = MaxIter
    /\ iter' = [iter EXCEPT ![t] = 0]
    /\ UNCHANGED <<data_locked, value, next_locked, pc, guards, local, initial>>

\* the guard is forgotten instead of dropped: data stays locked
Unlock_Leak(t) ==
    /\ pc[t] = "rel"
    /\ guards' = [guards EXCEPT ![t] = @ - 1]
    /\ pc' = [pc EXCEPT ![t] = "idle"]
    /\ iter' = [iter EXCEPT ![t] = @ + 1]
    /\ UNCHANGED <<data_locked, value, next_locked, local, initial>>

\* the drop of the data guard also unlocks the gate
Unlock_ReleasesGate(t) ==
    /\ pc[t] = "rel"
    /\ data_locked' = FALSE
    /\ next_locked' = FALSE
    /\ guards' = [guards EXCEPT ![t] = @ - 1]
    /\ pc' = [pc EXCEPT ![t] = "idle"]
    /\ iter' = [iter EXCEPT ![t] = @ + 1]
    /\ UNCHANGED <<value, local, initial>>

\* the MutexGuard is dropped: data is unlocked, nothing else is touched
Unlock(t) ==
    /\ pc[t] = "rel"
    /\ data_locked' = FALSE
    /\ guards' = [guards EXCEPT ![t] = @ - 1]
    /\ pc' = [pc EXCEPT ![t] = "idle"]
    /\ iter' = [iter EXCEPT ![t] = @ + 1]
    /\ UNCHANGED <<value, next_locked, local, initial>>

\* the holder dies and its guard is never dropped
Panic_Leak(t) ==
    /\ pc[t] \in InCS
    /\ pc' = [pc EXCEPT ![t] = "dead"]
    /\ guards' = [guards EXCEPT ![t] = 0]
    /\ iter' = [iter EXCEPT ![t] = 0]
    /\ local' = [local EXCEPT ![t] = 0]
    /\ UNCHANGED <<data_locked, value, next_locked, initial>>

\* the holder terminates abnormally in its critical section: unwinding
\* drops the guard, and a parking_lot mutex records nothing about it
Panic(t) ==
    /\ pc[t] \in InCS
    /\ data_locked' = FALSE
    /\ pc' = [pc EXCEPT ![t] = "dead"]
    /\ guards' = [guards EXCEPT ![t] = 0]
    /\ iter' = [iter EXCEPT ![t] = 0]
    /\ local' = [local EXCEPT ![t] = 0]
    /\ UNCHANGED <<value, next_locked, initial>>

\* the steps thread t takes by itself once it is inside lock() or holds the guard
ThreadStep(t) ==
    \/ LockNext(t)
    \/ LockData(t)
    \/ Return(t)
    \/ Read(t)
    \/ Write(t)
    \/ Unlock(t)

Next ==
    \E t \in Threads :
        \/ Call(t) /\ UNCHANGED <<hist, climb>>
        \/ Relock(t) /\ UNCHANGED <<hist, climb>>
        \/ LockNext(t) /\ UNCHANGED <<hist, climb>>
        \/ LockData(t) /\ UNCHANGED <<hist, climb>>
        \/ Return(t) /\ UNCHANGED <<hist, climb>>
        \/ Read(t) /\ UNCHANGED <<hist, climb>>
        \/ Write(t) /\ UNCHANGED <<hist, climb>>
        \/ Unlock(t) /\ UNCHANGED <<hist, climb>>
        \/ Panic(t) /\ UNCHANGED <<hist, climb>>

\* every use of the instance, abnormal termination and reentrant calls included
Spec == Init /\ [][Next]_vars

\* ---- the same steps, with the calls of one thread observed ----
\* All threads run the same code, so the lock() calls of one of them, the
\* observer, stand for the calls of any thread.

Observer == CHOOSE t \in Threads : TRUE

\* the other threads that are blocked when thread t looks
BlockedOthers(t) == {w \in Threads \ {t} : Blocked(w)}

\* the other threads that hold the gate and have not passed self.data.lock()
GateHolders(t) == {a \in Threads \ {t} : pc[a] = "data"}

\* the observer enters lock(): remember who is ahead and who is blocked
Enter(t) ==
    IF t = Observer
    THEN ahead' = GateHolders(t) /\ queued' = BlockedOthers(t)
    ELSE UNCHANGED <<ahead, queued>>

ObservedCall(t) ==
    /\ Call(t)
    /\ Enter(t)
    /\ UNCHANGED owed
    /\ UNCHANGED climb

ObservedRelock(t) ==
    /\ Relock(t)
    /\ Enter(t)
    /\ UNCHANGED owed
    /\ UNCHANGED climb

\* a thread that obtains the data lock is no longer waiting
ObservedLockData(t) ==
    /\ LockData(t)
    /\ queued' = queued \ {t}
    /\ UNCHANGED <<ahead, owed>>
    /\ UNCHANGED climb

\* the observer returns from lock(): the call is over
ObservedReturn(t) ==
    /\ Return(t)
    /\ IF t = Observer
       THEN ahead' = {} /\ queued' = {}
       ELSE UNCHANGED <<ahead, queued>>
    /\ UNCHANGED owed
    /\ UNCHANGED climb

OrderNext ==
    \E t \in Threads :
        \/ ObservedCall(t)
        \/ ObservedRelock(t)
        \/ ObservedLockData(t)
        \/ ObservedReturn(t)
        \/ LockNext(t) /\ UNCHANGED <<hist, climb>>
        \/ Read(t) /\ UNCHANGED <<hist, climb>>
        \/ Write(t) /\ UNCHANGED <<hist, climb>>
        \/ Unlock(t) /\ UNCHANGED <<hist, climb>>
        \/ Panic(t) /\ UNCHANGED <<hist, climb>>

OrderSpec == Init /\ [][OrderNext]_vars

\* ---- the same steps, with the guards of one thread observed ----

\* the observer holds the data lock and takes a step: remember who is blocked
Watch(t) ==
    IF t = Observer
    THEN owed' = owed \cup BlockedOthers(t)
    ELSE UNCHANGED owed

\* the observer returns from lock(): a new guard, and the threads that are
\* blocked on the gate it is about to release have waited while it held data
LeavingReturn(t) ==
    /\ Return(t)
    /\ IF t = Observer THEN owed' = BlockedOthers(t) ELSE UNCHANGED owed
    /\ UNCHANGED <<ahead, queued>>
    /\ UNCHANGED climb

LeavingRead(t) ==
    /\ Read(t)
    /\ Watch(t)
    /\ UNCHANGED <<ahead, queued>>
    /\ UNCHANGED climb

LeavingWrite(t) ==
    /\ Write(t)
    /\ Watch(t)
    /\ UNCHANGED <<ahead, queued>>
    /\ UNCHANGED climb

\* the observer drops its guard; nothing is kept after its last round
LeavingUnlock(t) ==
    /\ Unlock(t)
    /\ IF t = Observer /\ iter[t] + 1 = MaxIter THEN owed' = {} ELSE Watch(t)
    /\ UNCHANGED <<ahead, queued>>
    /\ UNCHANGED climb

\* a thread that obtains the data lock is no longer waiting
LeavingLockData(t) ==
    /\ LockData(t)
    /\ owed' = owed \ {t}
    /\ UNCHANGED <<ahead, queued>>
    /\ UNCHANGED climb

RelockNext ==
    \E t \in Threads :
        \/ Call(t) /\ UNCHANGED <<hist, climb>>
        \/ LockNext(t) /\ UNCHANGED <<hist, climb>>
        \/ LeavingLockData(t)
        \/ LeavingReturn(t)
        \/ LeavingRead(t)
        \/ LeavingWrite(t)
        \/ LeavingUnlock(t)

\* plain use only: every thread locks, uses and drops, and locks again
RelockSpec == Init /\ [][RelockNext]_vars

\* ---- users that never call lock() while they hold a guard, fairly scheduled ----

NextNoReentry ==
    \E t \in Threads :
        \/ Call(t) /\ UNCHANGED <<hist, climb>>
        \/ LockNext(t) /\ UNCHANGED <<hist, climb>>
        \/ LockData(t) /\ UNCHANGED <<hist, climb>>
        \/ Return(t) /\ UNCHANGED <<hist, climb>>
        \/ Read(t) /\ UNCHANGED <<hist, climb>>
        \/ Write(t) /\ UNCHANGED <<hist, climb>>
        \/ Unlock(t) /\ UNCHANGED <<hist, climb>>
        \/ Panic(t) /\ UNCHANGED <<hist, climb>>

\* preemptive OS threads: a thread that can run is eventually run
LiveSpec ==
    /\ Init
    /\ [][NextNoReentry]_vars
    /\ \A t \in Threads : WF_vars(ThreadStep(t) /\ UNCHANGED <<hist, climb>>)

\* ---- one thread reflects through immut_climber while the others lock, write and drop ----

\* what a traversal of the framework reports: a node tree or a ClimbError
Outcomes == {"Ok", "NeedMutPath", "Other"}

\* entry of immut_climber with the caller's climber: let save = climber.clone(),
\* then the first self.lock()
ClimbCall(t) ==
    /\ pc[t] = "idle"
    /\ phase = "none"
    /\ iter[t] + 1 < MaxIter
    /\ \E p \in 0..MaxPath : climber' = p /\ save' = p
    /\ phase' = "first"
    /\ ret1' = "none"
    /\ ret2' = "none"
    /\ result' = "none"
    /\ locks' = 1
    /\ atdrop' = {}
    /\ pc' = [pc EXCEPT ![t] = "next"]
    /\ UNCHANGED <<data_locked, value, next_locked, guards, iter, local, initial, hist>>

\* climber.general_access_immut(&*locked): reads T, moves the climber on, reports an outcome
ClimbImmut(t) ==
    /\ pc[t] = "cs"
    /\ phase = "first"
    /\ \E o \in Outcomes : ret1' = o
    /\ \E p \in climber..MaxPath : climber' = p
    /\ local' = [local EXCEPT ![t] = value]
    /\ pc' = [pc EXCEPT ![t] = "rel"]
    /\ UNCHANGED <<data_locked, value, next_locked, guards, iter, initial, hist>>
    /\ UNCHANGED <<phase, save, ret2, result, locks, atdrop>>

\* end of the block of the first attempt: its guard is dropped
ClimbDropFirst(t) ==
    /\ phase = "first"
    /\ Unlock(t)
    /\ atdrop' = GateHolders(t)
    /\ UNCHANGED <<hist, phase, climber, save, ret1, ret2, result, locks>>

\* the retry is entered while the guard of the first attempt is still alive
ClimbRetry_HoldingGuard(t) ==
    /\ pc[t] = "rel"
    /\ phase = "first"
    /\ ret1 = "NeedMutPath"
    /\ climber' = save
    /\ phase' = "retry"
    /\ locks' = locks + 1
    /\ pc' = [pc EXCEPT ![t] = "next"]
    /\ UNCHANGED <<data_locked, value, next_locked, guards, iter, local, initial, hist>>
    /\ UNCHANGED <<save, ret1, ret2, result, atdrop>>

\* the retry is entered on any error of the first attempt
ClimbRetry_AnyError(t) ==
    /\ pc[t] = "idle"
    /\ phase = "first"
    /\ ret1 \in {"NeedMutPath", "Other"}
    /\ climber' = save
    /\ phase' = "retry"
    /\ locks' = locks + 1
    /\ pc' = [pc EXCEPT ![t] = "next"]
    /\ UNCHANGED <<data_locked, value, next_locked, guards, iter, local, initial, hist>>
    /\ UNCHANGED <<save, ret1, ret2, result, atdrop>>

\* if let Err(ClimbError::NeedMutPath) = &retval: *climber = save, then the
\* second self.lock()
ClimbRetry(t) ==
    /\ pc[t] = "idle"
    /\ phase = "first"
    /\ ret1 = "NeedMutPath"
    /\ climber' = save
    /\ phase' = "retry"
    /\ locks' = locks + 1
    /\ pc' = [pc EXCEPT ![t] = "next"]
    /\ UNCHANGED <<data_locked, value, next_locked, guards, iter, local, initial, hist>>
    /\ UNCHANGED <<save, ret1, ret2, result, atdrop>>

\* retval is returned whatever it is, NeedMutPath included
ClimbReturnFirst_Any(t) ==
    /\ pc[t] = "idle"
    /\ phase = "first"
    /\ ret1 # "none"
    /\ result' = ret1
    /\ phase' = "none"
    /\ UNCHANGED <<core, hist, climber, save, ret1, ret2, locks, atdrop>>

\* else branch: retval is returned
ClimbReturnFirst(t) ==
    /\ pc[t] = "idle"
    /\ phase = "first"
    /\ ret1 \notin {"none", "NeedMutPath"}
    /\ result' = ret1
    /\ phase' = "none"
    /\ UNCHANGED <<core, hist, climber, save, ret1, ret2, locks, atdrop>>

\* climber.general_access_mut(&mut *locked): may change T, moves the climber on,
\* reports an outcome
ClimbMut(t) ==
    /\ pc[t] = "cs"
    /\ phase = "retry"
    /\ \E o \in Outcomes : ret2' = o
    /\ \E p \in climber..MaxPath : climber' = p
    /\ \E v \in {value, value + 1} : value' = v
    /\ pc' = [pc EXCEPT ![t] = "rel"]
    /\ UNCHANGED <<data_locked, next_locked, guards, iter, local, initial, hist>>
    /\ UNCHANGED <<phase, save, ret1, result, locks, atdrop>>

\* end of the retry branch: its guard is dropped and its result returned
ClimbReturnRetry(t) ==
    /\ phase = "retry"
    /\ Unlock(t)
    /\ result' = ret2
    /\ phase' = "none"
    /\ UNCHANGED <<hist, climber, save, ret1, ret2, locks, atdrop>>

\* another thread calls lock(), once, while the immut_climber call is in progress
Contend(t) ==
    /\ phase # "none"
    /\ iter[t] = 0
    /\ Call(t)
    /\ UNCHANGED <<hist, climb>>

ClimbNext ==
    \/ ClimbCall(Observer)
    \/ ClimbImmut(Observer)
    \/ ClimbDropFirst(Observer)
    \/ ClimbRetry(Observer)
    \/ ClimbReturnFirst(Observer)
    \/ ClimbMut(Observer)
    \/ ClimbReturnRetry(Observer)
    \/ \E t \in Threads :
        \/ LockNext(t) /\ UNCHANGED <<hist, climb>>
        \/ LockData(t) /\ UNCHANGED <<hist, climb>>
        \/ Return(t) /\ UNCHANGED <<hist, climb>>
    \/ \E t \in Threads \ {Observer} :
        \/ Contend(t)
        \/ Read(t) /\ UNCHANGED <<hist, climb>>
        \/ Write(t) /\ UNCHANGED <<hist, climb>>
        \/ Unlock(t) /\ UNCHANGED <<hist, climb>>

ClimbSpec == Init /\ [][ClimbNext]_vars

\* ---- threads that lock, read and release for ever, strongly fair acquisitions ----

ForeverNext ==
    \E t \in Threads :
        \/ Call(t) /\ UNCHANGED <<hist, climb>>
        \/ Again(t) /\ UNCHANGED <<hist, climb>>
        \/ LockNext(t) /\ UNCHANGED <<hist, climb>>
        \/ LockData(t) /\ UNCHANGED <<hist, climb>>
        \/ Return(t) /\ UNCHANGED <<hist, climb>>
        \/ Read(t) /\ UNCHANGED <<hist, climb>>
        \/ Keep(t) /\ UNCHANGED <<hist, climb>>
        \/ Unlock(t) /\ UNCHANGED <<hist, climb>>

\* what the gate holder does up to the drop of its data guard
Use(t) == LockData(t) \/ Return(t) \/ Read(t) \/ Keep(t) \/ Unlock(t)

\* every guard is eventually dropped, and a thread that finds the gate free
\* again and again eventually takes it (for data, which only the gate holder
\* contends for, weak fairness is all that is assumed)
ForeverSpec ==
    /\ Init
    /\ [][ForeverNext]_vars
    /\ \A t \in Threads : WF_vars(Use(t) /\ UNCHANGED <<hist, climb>>)
    /\ \A t \in Threads : SF_vars(LockNext(t) /\ UNCHANGED <<hist, climb>>)

\* ---- properties ----

\* C1: mutual exclusion -- at most one thread holds the data lock (a live
\* guard, or the guard lock() is about to return) in every reachable state
C1_MutualExclusion == Cardinality({t \in Threads : HoldsData(t)}) <= 1

\* one thread uses its guard while another one is past the gate and blocked on data
C1_Witness ==
    \E t, u \in Threads : t # u /\ guards[t] = 1 /\ pc[t] \in InCS /\ pc[u] = "data"

\* C2: one-ahead fairness -- a thread C (the observer) that has obtained the
\* data lock for a call it began after thread A had acquired the gate never
\* finds A still waiting for the data lock: A got it first
C2_OneAhead ==
    pc[Observer] = "ret" => \A a \in ahead : pc[a] # "data"

\* C obtained the data lock for a call it began while A held the gate
C2_Witness == pc[Observer] = "ret" /\ ahead # {}

C4_NoRelockBarging ==
    [][(pc[Observer] = "ret" /\ pc'[Observer] = "cs") => owed = {}]_vars

\* C5: no lost updates -- once every thread has finished its MaxIter rounds
\* of lock, read, write value+1, drop, the counter is initial + N*M
C5_NoLostUpdates ==
    (\A t \in Threads : pc[t] = "idle" /\ iter[t] = MaxIter)
        => value = initial + NumThreads * MaxIter

\* every thread has finished all its rounds
C5_Witness == \A t \in Threads : pc[t] = "idle" /\ iter[t] = MaxIter

\* C6: reentrancy deadlocks -- a thread that calls lock() while it owns the
\* guard never obtains the data lock again: it is never about to return
\* from that call and never owns a second guard
C6_ReentrantBlocks ==
    \A t \in Threads :
        /\ guards[t] <= 1
        /\ (guards[t] = 1 /\ pc[t] \in InLock) => pc[t] # "ret"

\* a thread that owns the guard is past the gate of a second lock() call
C6_Witness == \E t \in Threads : guards[t] = 1 /\ pc[t] = "data"

\* the locked bit of data is set only while some live thread holds the data lock
NoDeadHolder == data_locked => \E u \in Threads : HoldsData(u)

\* C7: no poisoning -- abnormal termination of the holder unlocks data and
\* leaves T as it is, no dead thread keeps data locked, and the thread that
\* obtains the data lock afterwards finds T unchanged
C7_NoPoisoning ==
    [][/\ \A t \in Threads :
            /\ (pc[t] \in InCS /\ pc'[t] = "dead") => (~data_locked' /\ value' = value)
            /\ (pc[t] = "data" /\ pc'[t] = "ret") => value' = value
       /\ NoDeadHolder']_vars

\* a thread has read T through a guard it obtained after another thread died in its critical section
C7_Witness ==
    \E d, u \in Threads : pc[d] = "dead" /\ pc[u] = "wr" /\ local[u] = value

\* C8: construction -- a fresh instance has both mutexes unlocked and holds
\* the value given to new(); the first lock() call on it is never blocked
\* and gives access to that value
C8_Construction ==
    /\ users = {} => (~data_locked /\ ~next_locked /\ value = initial)
    /\ \A t \in Threads :
          (users = {t} /\ iter[t] = 0 /\ guards[t] = 0 /\ pc[t] \in InLock)
              => (~Blocked(t) /\ value = initial)
    /\ \A t \in Threads :
          (users = {t} /\ iter[t] = 0 /\ pc[t] = "wr") => local[t] = initial

\* the first caller has read a nonzero initial value through its guard
C8_Witness ==
    \E t \in Threads :
        users = {t} /\ iter[t] = 0 /\ pc[t] = "wr" /\ local[t] = initial /\ initial > 0

\* no state in which data is free, threads are inside lock() and none can step
NoStuck ==
    (~data_locked /\ \E t \in Threads : pc[t] \in InLock)
        => \E t \in Threads : pc[t] \in InLock /\ ENABLED ThreadStep(t)

\* C9: progress after release -- with no reentrant call and fair scheduling
\* of the threads (so the holder goes on to drop its guard), the thread that
\* holds the gate and waits for data eventually obtains the data lock, and
\* the lock is never stuck while data is free
C9_Progress ==
    /\ \A t \in Threads : (pc[t] = "data") ~> (pc[t] = "ret")
    /\ []NoStuck

\* a thread holds the gate and is blocked on data, held by a thread in its critical section
C9_Witness ==
    \E t, h \in Threads : pc[t] = "data" /\ data_locked /\ pc[h] \in InCS

\* C10: sequential use never blocks -- while a single thread is the only
\* user and holds no guard when it calls, every lock() call finds the gate
\* and the data lock free
C10_SequentialNeverBlocks ==
    \A t \in Threads :
        (users = {t} /\ guards[t] = 0) =>
            /\ pc[t] = "next" => (~next_locked /\ ~data_locked)
            /\ pc[t] = "data" => ~data_locked

\* the only user has returned from a lock() call after a completed round
C10_Witness ==
    \E t \in Threads : users = {t} /\ iter[t] >= 1 /\ pc[t] = "cs"

\* C13: gate is held while waiting for data -- a thread that is at
\* self.data.lock() finds the gate locked, and locked by itself: no other
\* thread is past the gate
C13_GateHeldWhileWaiting ==
    \A t \in Threads :
        pc[t] = "data" =>
            /\ next_locked
            /\ \A u \in Threads \ {t} : pc[u] \notin {"data", "ret"}

\* a thread is blocked on data, held by another thread, and a third one is at the gate
C13_Witness ==
    \E t, h, w \in Threads :
        pc[t] = "data" /\ pc[h] \in InCS /\ pc[w] = "next" /\ data_locked

\* C14: gate is released before lock() returns -- when a thread uses its
\* guard, the gate is locked only if some other thread is past the gate
C14_GateFreeInCS ==
    \A t \in Threads :
        (pc[t] \in InCS /\ next_locked)
            => \E u \in Threads \ {t} : pc[u] \in {"data", "ret"}

\* a thread uses its guard while another thread has taken the gate
C14_Witness ==
    \E t, u \in Threads : pc[t] \in InCS /\ guards[t] = 1 /\ pc[u] = "data" /\ next_locked

\* C15: at most one thread waits on the data lock -- at most one thread is
\* at self.data.lock(), and every other thread inside lock() is at the gate
C15_OneDataWaiter ==
    /\ Cardinality({t \in Threads : pc[t] = "data"}) <= 1
    /\ \A t, u \in Threads :
          (t # u /\ pc[t] = "data" /\ pc[u] \in InLock) => pc[u] = "next"

\* one thread waits on data and all other threads wait at the gate
C15_Witness ==
    \E t \in Threads :
        /\ pc[t] = "data" /\ data_locked /\ guards[t] = 0
        /\ \E u \in Threads \ {t} : pc[u] = "next"

\* C16: dropping a guard releases the data lock only -- the step unlocks
\* data and leaves the gate, the position of every other thread (so who
\* holds the gate and who waits for it) and the protected value unchanged
C16_DropReleasesDataOnly ==
    [][\A t \in Threads :
          (pc[t] = "rel" /\ pc'[t] = "idle") =>
              /\ ~data_locked'
              /\ next_locked' = next_locked
              /\ value' = value
              /\ \A w \in Threads \ {t} : pc'[w] = pc[w]]_vars

\* a guard was dropped and data is free while one thread holds the gate and another waits for it
C16_Witness ==
    \E t, a, w \in Threads :
        /\ pc[t] = "idle" /\ iter[t] >= 1
        /\ pc[a] = "data" /\ ~data_locked /\ next_locked /\ pc[w] = "next"

\* thread t is inside lock() while it owns a guard
Reentered(t) == guards[t] >= 1 /\ pc[t] \in InLock

\* C18: a reentrant call makes the lock unusable -- once a thread is inside
\* lock() while it owns a guard, it stays there, no thread obtains the data
\* lock or leaves lock() any more, and the gate, once locked, stays locked
C18_ReentryBlocksAll ==
    [][(\E t \in Threads : Reentered(t)) =>
          /\ \E t \in Threads : Reentered(t)'
          /\ next_locked => next_locked'
          /\ \A u \in Threads : pc'[u] # "ret"
          /\ \A u \in Threads : pc[u] \in InLock => pc'[u] \in InLock]_vars

\* a thread holds the gate in a reentrant call while another thread waits at the gate
C18_Witness ==
    \E t, u \in Threads :
        t # u /\ guards[t] = 1 /\ pc[t] = "data" /\ pc[u] = "next" /\ next_locked

\* C20: starvation freedom -- with no reentrant call, every guard dropped in
\* the end and strongly fair gate and data acquisitions, every lock() call
\* of every thread returns, however often the other threads lock and release
C20_NoStarvation ==
    \A t \in Threads : (pc[t] = "next") ~> (pc[t] = "cs")

\* a thread is blocked on the gate while a thread in a later round holds it
C20_Witness ==
    \E t, u \in Threads :
        pc[t] = "next" /\ iter[t] = 0 /\ next_locked /\ pc[u] \in {"data", "ret"} /\ iter[u] >= 1

\* C11: immut_climber never holds the data lock across both attempts -- the
\* retry calls lock() only after the guard of the first attempt is dropped, and
\* it obtains its own guard through a second, complete lock(): the gate first,
\* then the data lock
C11_FreshLockForRetry ==
    phase = "retry" =>
        /\ locks = 2
        /\ guards[Observer] <= 1
        /\ pc[Observer] \in {"next", "data"} => guards[Observer] = 0
        /\ pc[Observer] \in {"data", "ret"} => next_locked
        /\ pc[Observer] = "ret" => data_locked /\ guards[Observer] = 0
        /\ pc[Observer] \in {"cs", "rel"} => data_locked /\ guards[Observer] = 1

\* between the two attempts another thread holds the data lock, while the
\* retry waits for it with the gate in hand
C11_Witness ==
    /\ phase = "retry"
    /\ pc[Observer] = "data"
    /\ \E u \in Threads \ {Observer} : pc[u] \in InCS

\* C12 as stated: no traversal error is ever returned to the caller of
\* immut_climber
C12_ErrorsNeverReturned ==
    result \in {"none", "Ok"}

\* C12: only the NeedMutPath of the non-mutating attempt is recovered inside
\* immut_climber -- it is never returned as such, the result of the retry is
\* returned in its place; any other result of the first attempt is returned
C12_OnlyNeedMutPathRecovered ==
    result # "none" =>
        /\ ret1 = "NeedMutPath" => ret2 # "none"
        /\ result = IF ret1 = "NeedMutPath" THEN ret2 ELSE ret1

\* a call that recovered from NeedMutPath and returned the node tree of the retry
C12_Witness ==
    /\ phase = "none"
    /\ ret1 = "NeedMutPath"
    /\ result = "Ok"

\* C17: immut_climber goes on to the mutating traversal if and only if the
\* first attempt gave NeedMutPath; otherwise it returns the first result after
\* one lock() and one release; on NeedMutPath the climber is put back to the
\* saved state, lock() is called exactly once more and the result of the
\* mutating traversal is returned whatever it is
C17_FallbackOnlyOnNeedMutPath ==
    /\ phase = "retry" =>
          /\ ret1 = "NeedMutPath"
          /\ locks = 2
          /\ ret2 = "none" => climber = save
    /\ (phase = "none" /\ result # "none") =>
          /\ pc[Observer] = "idle" /\ guards[Observer] = 0
          /\ IF ret1 = "NeedMutPath"
             THEN locks = 2 /\ result = ret2
             ELSE locks = 1 /\ ret2 = "none" /\ result = ret1

\* the first attempt moved the climber on and gave NeedMutPath; the retry ran
\* from the saved climber and its error was returned
C17_Witness ==
    /\ phase = "none"
    /\ ret1 = "NeedMutPath"
    /\ result = "Other"
    /\ locks = 2
    /\ save < climber

\* C19: the retry queues like any other lock() call -- a thread that held the
\* gate and waited for the data lock when the first guard was dropped has
\* obtained the data lock, and dropped its guard, before the retry obtains
\* the data lock
C19_RetryWaitsItsTurn ==
    phase = "retry" =>
        \A a \in atdrop :
            /\ pc[Observer] = "data" => pc[a] \in InCS \cup {"idle"}
            /\ pc[Observer] \in {"ret", "cs", "rel"} => pc[a] = "idle" /\ iter[a] >= 1

\* the retry runs on a value that the thread served in between has changed
C19_Witness ==
    /\ phase = "retry"
    /\ pc[Observer] = "cs"
    /\ atdrop # {}
    /\ value # local[Observer]

====
